---- MODULE Spec2Model ----
(***************************************************************************)
(* A model of decoding_SSP.ipynb: the MySP vector class, the HRR           *)
(* vocabulary with its cleanup, the construction of the phase couplings    *)
(* and the iterative outlier-rejecting least-squares decoder.              *)
(*                                                                         *)
(* Numbers.  The notebook computes in float64.  TLC has 32-bit integers    *)
(* only, so a real number is modelled as an exact rational <<n, d>> with   *)
(* d > 0 in lowest terms (the decoder), or as an integer (vector values    *)
(* and phases, which the modelled code only adds, negates, multiplies and  *)
(* compares).  Rounding is not modelled.                                   *)
(*                                                                         *)
(* Arrays.  A numpy array or Python list of length n is a function with    *)
(* domain 0..n-1, so that indices are the source's indices.                *)
(***************************************************************************)
EXTENDS Integers, Sequences, FiniteSets, TLC

VARIABLES
    \* ---- the decoder cell (lines 532-557) and its inputs
    DeltaPhi,     \* measured phase differences, one per coupling
    DeltaA,       \* reference phase differences, one per coupling
    kappa,        \* gradient descent step size
    epsilon,      \* the convergence threshold (0.0001 in the source)
    max_iters,    \* the bound of range(1, max_iters)
    x,            \* the current estimate
    iter,         \* the loop variable; 0 before the first iteration
    resid,        \* the residuals of the last iteration, outliers zeroed
    outliers,     \* the outlier mask of the last iteration
    x_increment,  \* the increment of the last iteration
    pc,           \* ESTIMATING | CONVERGED | EXHAUSTED (idle in other specs)
    estimate,     \* the value printed as 'Final estimate of x'
    \* ---- MySP random construction and the coupling cells (lines 88-98, 447-462)
    D,            \* the dimension given to MySP(D=D)
    a,            \* sp.a, the phase sequence kept by the constructor
    sp,           \* new | ok | ValueError : outcome of MySP(D=D)
    sidx,         \* argsort(sp.a)
    couplings,    \* the list of index pairs
    \* ---- HRR (lines 214-239)
    vocab,        \* self.vocab, a list of value arrays
    ret,          \* what the last call returned or raised
    \* ---- MySP algebra on a heap of objects (lines 99-141)
    vecs,         \* the MySP objects: [v |-> contents of self.v, ref |-> its identity]
    last          \* the last call on the heap and its outcome

vars == <<DeltaPhi, DeltaA, kappa, epsilon, max_iters, x, iter, resid, outliers,
          x_increment, pc, estimate, D, a, sp, sidx, couplings, vocab, ret,
          vecs, last>>

decoderVars == <<DeltaPhi, DeltaA, kappa, epsilon, max_iters, x, iter, resid,
                 outliers, x_increment, pc, estimate>>
sspVars == <<D, a, sp, sidx, couplings>>
hrrVars == <<vocab, ret>>
heapVars == <<vecs, last>>

----------------------------------------------------------------------------
(* Arrays *)

Len0(arr) == Cardinality(DOMAIN arr)

Empty0 == [i \in {} |-> 0]

Arr(n, S) == [0..(n - 1) -> S]

----------------------------------------------------------------------------
(* Exact rationals <<n, d>>, d > 0, in lowest terms *)

Abs(n) == IF n < 0 THEN -n ELSE n

gcd[m \in Nat, n \in Nat] == IF n = 0 THEN m ELSE gcd[n, m % n]

Gcd(m, n) == gcd[m, n]

Norm(n, d) ==
    LET g == Gcd(Abs(n), d)
    IN  IF n = 0 THEN <<0, 1>> ELSE <<n \div g, d \div g>>

R(n) == <<n, 1>>

RAdd(p, q) ==
    LET g == Gcd(p[2], q[2])
    IN  Norm(p[1] * (q[2] \div g) + q[1] * (p[2] \div g), (p[2] \div g) * q[2])

RNeg(p) == <<-p[1], p[2]>>

RSub(p, q) == RAdd(p, RNeg(q))

RMul(p, q) ==
    LET g1 == Gcd(Abs(p[1]), q[2])
        g2 == Gcd(Abs(q[1]), p[2])
    IN  IF p[1] = 0 \/ q[1] = 0 THEN <<0, 1>>
        ELSE <<(p[1] \div g1) * (q[1] \div g2), (p[2] \div g2) * (q[2] \div g1)>>

RAbs(p) == <<Abs(p[1]), p[2]>>

\* p > q
RGt(p, q) == p[1] * q[2] > q[1] * p[2]

\* p < q
RLt(p, q) == p[1] * q[2] < q[1] * p[2]

\* 1./iter
Recip(t) == <<1, t>>

\* the sum of arr[0..n-1]; h is the value of the sum of arr[0..n-2]
RECURSIVE RSum(_, _)
RSum(arr, n) ==
    IF n = 0 THEN <<0, 1>>
    ELSE CHOOSE s \in {RAdd(h, arr[n - 1]) : h \in {RSum(arr, n - 1)}} : TRUE

\* u @ w for two arrays of one length
Dot(u, w) ==
    CHOOSE s \in {RSum(prod, Len0(u)) :
                     prod \in {[i \in DOMAIN u |-> RMul(u[i], w[i])]}} : TRUE

----------------------------------------------------------------------------
(* The decoder: bounds and inputs *)

MaxCouplings == 2
MaxIters == 4

\* kappa = 0.1 and abs(x_increment)<0.0001 are the source's values; the others
\* make the boundary cases of the comparisons occur within MaxIters iterations
KappaVals == {<<1, 10>>, <<1, 2>>, <<1, 1>>}
EpsilonVals == {<<1, 10000>>, <<1, 4>>}
DeltaPhiVals == {<<-1, 1>>, <<1, 2>>, <<1, 1>>, <<2, 1>>}
DeltaAVals == {<<-1, 1>>, <<1, 1>>, <<2, 1>>}

\* a variable not bound yet
Unbound == <<0, 0>>

IdleSSP == D = 0 /\ a = Empty0 /\ sp = "idle" /\ sidx = Empty0 /\ couplings = Empty0

IdleHRR == vocab = Empty0 /\ ret = [call |-> "none"]

IdleHeap == vecs = <<>> /\ last = [op |-> "none", self |-> 0, y |-> 0, raised |-> FALSE]

\* the decoder cell has not begun
InitDecoder ==
    /\ DeltaPhi = Empty0 /\ DeltaA = Empty0
    /\ kappa = Unbound /\ epsilon = Unbound /\ max_iters = 0
    /\ x = Unbound /\ iter = 0 /\ resid = Empty0 /\ outliers = Empty0
    /\ x_increment = Unbound /\ estimate = Unbound
    /\ pc = "start"

\* Lines 532-536 with the cell's inputs: DeltaPhi and DeltaA of one length,
\* x = 0., kappa, max_iters (and the threshold of line 553)
Begin ==
    /\ pc = "start"
    /\ \E n \in 0..MaxCouplings :
          /\ DeltaPhi' \in Arr(n, DeltaPhiVals)
          /\ DeltaA' \in Arr(n, DeltaAVals)
    /\ kappa' \in KappaVals
    /\ epsilon' \in EpsilonVals
    /\ max_iters' \in 1..MaxIters
    /\ x' = R(0)
    /\ pc' = "ESTIMATING"
    /\ UNCHANGED <<iter, resid, outliers, x_increment, estimate>>
    /\ UNCHANGED <<sspVars, hrrVars, heapVars>>

\* resid = DeltaPhi - DeltaA * x
Residual(dphi, da, xx) == [i \in DOMAIN dphi |-> RSub(dphi[i], RMul(da[i], xx))]

\* p >= q
RGe(p, q) == p[1] * q[2] >= q[1] * p[2]

\* p <= q
RLe(p, q) == p[1] * q[2] <= q[1] * p[2]

\* the mask with >= for >: a residual of exactly 1/iter is rejected too
OutliersGe(r, t) == [i \in DOMAIN r |-> RGe(RAbs(r[i]), Recip(t))]

\* abs(resid)>1./iter
Outliers(r, t) == [i \in DOMAIN r |-> RGt(RAbs(r[i]), Recip(t))]

\* the body without line 546: the rejected residuals are not zeroed
ZeroOutliersSkipped(r, mask) == r

\* resid[outliers] = 0.
ZeroOutliers(r, mask) == [i \in DOMAIN r |-> IF mask[i] THEN R(0) ELSE r[i]]

\* the test with <= for <: an increment of exactly the threshold stops the loop
SmallLe(inc, e) == RLe(RAbs(inc), e)

\* abs(x_increment)<0.0001
Small(inc, e) == RLt(RAbs(inc), e)

\* One pass of the loop body with iter = t: lines 539-554, and line 556 when
\* the break is taken.  Each intermediate value of the body is bound once, in
\* the order the statements compute it (\E v \in {e} binds v to the value of e).
LoopBody ==
    /\ pc = "ESTIMATING"
    /\ iter + 1 < max_iters
    /\ \E t \in {iter + 1} :
       \E r \in {Residual(DeltaPhi, DeltaA, x)} :
       \E mask \in {Outliers(r, t)} :
       \E rz \in {ZeroOutliers(r, mask)} :
       \E dot \in {Dot(DeltaA, rz)} :
       \E inc \in {RMul(kappa, dot)} :
           /\ iter' = t
           /\ resid' = rz
           /\ outliers' = mask
           /\ x_increment' = inc
           /\ x' = RAdd(x, inc)
           /\ IF Small(inc, epsilon)
              THEN pc' = "CONVERGED" /\ estimate' = RAdd(x, inc)
              ELSE pc' = "ESTIMATING" /\ estimate' = estimate
    /\ UNCHANGED <<DeltaPhi, DeltaA, kappa, epsilon, max_iters>>
    /\ UNCHANGED <<sspVars, hrrVars, heapVars>>

\* range(1, max_iters) is exhausted: the loop ends without break, line 556
LoopExhausted ==
    /\ pc = "ESTIMATING"
    /\ ~(iter + 1 < max_iters)
    /\ pc' = "EXHAUSTED"
    /\ estimate' = x
    /\ UNCHANGED <<DeltaPhi, DeltaA, kappa, epsilon, max_iters, x, iter, resid,
                   outliers, x_increment>>
    /\ UNCHANGED <<sspVars, hrrVars, heapVars>>

Init == InitDecoder /\ IdleSSP /\ IdleHRR /\ IdleHeap

Next == Begin \/ LoopBody \/ LoopExhausted

Spec == Init /\ [][Next]_vars

\* the cell runs to its end: nothing suspends the loop
FairSpec == Spec /\ WF_vars(Next)

----------------------------------------------------------------------------
(* MySP(D=D) with random phases, and the coupling cells *)

MaxD == 5

\* the values random.normal(size=D)*2. may give to one phase
AngleVals == {-2, -1, 0, 1, 3}

Min(m, n) == IF m < n THEN m ELSE n
Max(m, n) == IF m > n THEN m ELSE n

\* the index a slice bound b denotes in an array of length n
SliceIndex(b, n) == IF b < 0 THEN Max(n + b, 0) ELSE Min(b, n)

\* arr[lo:hi] for indices already resolved on arr
Sub(arr, lo, hi) == [i \in 0..(hi - lo - 1) |-> arr[lo + i]]

\* arr[b:]
From(arr, b) == Sub(arr, SliceIndex(b, Len0(arr)), Len0(arr))

\* arr[:b]
Upto(arr, b) == Sub(arr, 0, SliceIndex(b, Len0(arr)))

\* arr[b:c]
Between(arr, b, c) == Sub(arr, SliceIndex(b, Len0(arr)), SliceIndex(c, Len0(arr)))

\* flip(arr)
Flip(arr) == [i \in DOMAIN arr |-> arr[Len0(arr) - 1 - i]]

\* -arr
Negate(arr) == [i \in DOMAIN arr |-> -arr[i]]

\* arr[b:] = src : the array afterwards, and whether numpy raised ValueError
\* because it cannot broadcast src (its length is neither that of the slice
\* nor 1); the array is then left as it was
AssignFrom(arr, b, src) ==
    LET n == Len0(arr)
        lo == SliceIndex(b, n)
        m == Len0(src)
    IN  IF m = n - lo
        THEN [raised |-> FALSE,
              arr |-> [i \in DOMAIN arr |-> IF i < lo THEN arr[i] ELSE src[i - lo]]]
        ELSE IF m = 1
        THEN [raised |-> FALSE,
              arr |-> [i \in DOMAIN arr |-> IF i < lo THEN arr[i] ELSE src[0]]]
        ELSE [raised |-> TRUE, arr |-> arr]

\* lines 92-96 on the sampled angles; raised when line 93 raises
Symmetrize(angles, dim) ==
    LET D2 == (dim + 1) \div 2
        s1 == AssignFrom(angles, -D2 + 1, Flip(Negate(Between(angles, 1, D2))))
        s2 == [s1.arr EXCEPT ![0] = 0]
    IN  IF s1.raised THEN s1
        ELSE [raised |-> FALSE,
              arr |-> IF dim % 2 = 0 THEN [s2 EXCEPT ![D2] = 0] ELSE s2]

\* the notebook is about to build sp = MySP(D=D)
InitSSP ==
    /\ D \in 1..MaxD
    /\ a = Empty0 /\ sp = "new" /\ sidx = Empty0 /\ couplings = Empty0
    /\ pc = "construct"

\* MySP.__init__ with v=None, lines 88-98
Construct ==
    /\ pc = "construct"
    /\ \E angles \in Arr(D, AngleVals) :
          LET sym == Symmetrize(angles, D)
          IN  IF sym.raised
              THEN sp' = "ValueError" /\ a' = a /\ pc' = "raised"
              ELSE sp' = "ok" /\ a' = sym.arr /\ pc' = "cell14"
    /\ UNCHANGED <<D, sidx, couplings>>
    /\ UNCHANGED <<DeltaPhi, DeltaA, kappa, epsilon, max_iters, x, iter, resid,
                   outliers, x_increment, estimate>>
    /\ UNCHANGED <<hrrVars, heapVars>>

\* the orders argsort may return for the indices S of arr: the default sort is
\* not stable, so equal phases may come in either order
RECURSIVE Argsorts(_, _)
Argsorts(arr, S) ==
    IF S = {} THEN {Empty0}
    ELSE UNION {
           {[i \in 0..(Cardinality(S) - 1) |-> IF i = 0 THEN j ELSE rest[i - 1]] :
                rest \in Argsorts(arr, S \ {j})} :
           j \in {k \in S : \A l \in S : arr[k] <= arr[l]}}

\* list(zip(u, w))
Zip(u, w) == [i \in 0..(Min(Len0(u), Len0(w)) - 1) |-> <<u[i], w[i]>>]

\* list.extend
Extend(u, w) ==
    [i \in 0..(Len0(u) + Len0(w) - 1) |-> IF i < Len0(u) THEN u[i] ELSE w[i - Len0(u)]]

\* zip(sidx[:-1], sidx[1:])
Adjacent(s) == Zip(Upto(s, -1), From(s, 1))

\* the skip-one pairs zipped against sidx[1:] instead of sidx[2:]
SkipOneShifted(s) == Zip(Upto(s, -2), From(s, 1))

\* zip(sidx[:-2], sidx[2:])
SkipOne(s) == Zip(Upto(s, -2), From(s, 2))

\* cell 14, lines 447-452
BuildCouplings ==
    /\ pc = "cell14"
    /\ \E s \in Argsorts(a, DOMAIN a) :
          /\ sidx' = s
          /\ couplings' = Extend(Adjacent(s), SkipOne(s))
    /\ pc' = "cell15"
    /\ UNCHANGED <<D, a, sp>>
    /\ UNCHANGED <<DeltaPhi, DeltaA, kappa, epsilon, max_iters, x, iter, resid,
                   outliers, x_increment, estimate>>
    /\ UNCHANGED <<hrrVars, heapVars>>

\* cell 15, line 462
RecordDeltaA ==
    /\ pc = "cell15"
    /\ DeltaA' = [i \in DOMAIN couplings |->
                     R(a[couplings[i][1]] - a[couplings[i][2]])]
    /\ pc' = "cell16"
    /\ UNCHANGED <<D, a, sp, sidx, couplings>>
    /\ UNCHANGED <<DeltaPhi, kappa, epsilon, max_iters, x, iter, resid,
                   outliers, x_increment, estimate>>
    /\ UNCHANGED <<hrrVars, heapVars>>

IdleDecoderData ==
    /\ DeltaPhi = Empty0 /\ DeltaA = Empty0 /\ kappa = Unbound
    /\ epsilon = Unbound /\ max_iters = 0 /\ x = Unbound /\ iter = 0
    /\ resid = Empty0 /\ outliers = Empty0 /\ x_increment = Unbound
    /\ estimate = Unbound

InitS == InitSSP /\ IdleDecoderData /\ IdleHRR /\ IdleHeap

NextS == Construct \/ BuildCouplings \/ RecordDeltaA

SpecSSP == InitS /\ [][NextS]_vars

----------------------------------------------------------------------------
(* HRR: the vocabulary, __call__ and cleanup *)

MaxN == 3
VocabDim == 2

\* The values of a member and of a query.  A member built by MySP(D=D) has
\* norm 1; +-1 entries give all members one norm.  A query may be any vector,
\* a scaled or bundled one included.
MemberVals == {-1, 1}
QueryVals == {-2, -1, 0, 1, 2}

\* max_sim = -1.e50 of line 233, placed on the model's integer scale: the scan
\* only compares similarities, and similarities below, at and above this value
\* all occur (they run from -2*VocabDim to 2*VocabDim)
MaxSimStart == -3

\* np.dot(u, w) for two arrays of one length
RECURSIVE IntDotUpto(_, _, _)
IntDotUpto(u, w, n) ==
    IF n = 0 THEN 0 ELSE IntDotUpto(u, w, n - 1) + u[n - 1] * w[n - 1]

\* MySP.similarity on the values of two vectors of one dimension
Similarity(u, w) == IntDotUpto(u, w, Len0(u))

\* lst[idx] of a Python list: a negative idx counts from the end
GetItem(lst, idx) ==
    LET n == Len0(lst)
    IN  IF 0 <= idx /\ idx < n THEN [kind |-> "ok", v |-> lst[idx]]
        ELSE IF -n <= idx /\ idx < 0 THEN [kind |-> "ok", v |-> lst[n + idx]]
        ELSE [kind |-> "IndexError", v |-> Empty0]

\* the loop of lines 234-238 from member k on: <<closest, max_sim>> at its end
RECURSIVE Scan(_, _, _, _, _)
Scan(members, q, k, closest, max_sim) ==
    IF k = Len0(members) THEN <<closest, max_sim>>
    ELSE IF Similarity(q, members[k]) > max_sim
         THEN Scan(members, q, k + 1, k, Similarity(q, members[k]))
         ELSE Scan(members, q, k + 1, closest, max_sim)

\* HRR(N, D) has been built: N members of dimension D
InitHRR ==
    /\ \E n \in 0..MaxN : vocab \in Arr(n, Arr(VocabDim, MemberVals))
    /\ ret = [call |-> "none"]

\* HRR.__call__(idx), line 223
Call ==
    /\ \E idx \in -(MaxN + 1)..(MaxN + 1) :
          ret' = [call |-> "call", arg |-> idx,
                  kind |-> GetItem(vocab, idx).kind, v |-> GetItem(vocab, idx).v]
    /\ UNCHANGED vocab
    /\ UNCHANGED <<decoderVars, sspVars, heapVars>>

\* HRR.cleanup(x), lines 232-239
Cleanup ==
    /\ \E q \in Arr(VocabDim, QueryVals) :
          LET found == Scan(vocab, q, 0, -1, MaxSimStart)
              got == GetItem(vocab, found[1])
          IN  ret' = [call |-> "cleanup", arg |-> q, kind |-> got.kind,
                      v |-> got.v, k |-> found[1], sim |-> found[2]]
    /\ UNCHANGED vocab
    /\ UNCHANGED <<decoderVars, sspVars, heapVars>>

IdlePc == pc = "idle"

InitV == InitHRR /\ IdlePc /\ IdleDecoderData /\ IdleSSP /\ IdleHeap

NextV == Call \/ Cleanup

SpecHRR == InitV /\ [][NextV]_vars

----------------------------------------------------------------------------
(* The MySP algebra on a heap of objects.                                  *)
(*                                                                         *)
(* vecs[k] is the k-th MySP object: v is the contents of the array self.v  *)
(* refers to, ref is the identity of that array.  Two objects with one ref *)
(* refer to one array, as after MySP(v=other.v), where line 100 stores the *)
(* argument without copying it.  last records the latest call.             *)

MaxVecs == 2

\* the entries and the lengths the explicit constructor is given
HeapVals == {0, 1}
Dims == {1, 2, 3}
ScaleVals == {0, 1, 2}

Arrays == UNION {Arr(n, HeapVals) : n \in Dims}

InDomain(arr) == \A i \in DOMAIN arr : arr[i] \in HeapVals

\* the sum of f[0..n-1]
RECURSIVE IntSum(_, _)
IntSum(f, n) == IF n = 0 THEN 0 ELSE IntSum(f, n - 1) + f[n - 1]

\* whether numpy broadcasts two 1-d arrays of lengths n and m
Broadcasts(n, m) == n = m \/ n = 1 \/ m = 1

\* real(ifft(fft(u)*fft(w))) for lengths that broadcast: the circular
\* convolution for equal lengths, and the multiple by the single coefficient
\* when one of the transforms has length 1
BindValues(u, w) ==
    LET n == Len0(u)
        m == Len0(w)
    IN  IF n = m
        THEN [k \in DOMAIN u |->
                 IntSum([i \in DOMAIN u |-> u[i] * w[(k - i + n) % n]], n)]
        ELSE IF m = 1 THEN [i \in DOMAIN u |-> u[i] * w[0]]
        ELSE [i \in DOMAIN w |-> u[0] * w[i]]

\* u + w for lengths that broadcast
BundleValues(u, w) ==
    LET n == Len0(u)
        m == Len0(w)
    IN  IF n = m THEN [i \in DOMAIN u |-> u[i] + w[i]]
        ELSE IF m = 1 THEN [i \in DOMAIN u |-> u[i] + w[0]]
        ELSE [i \in DOMAIN w |-> u[0] + w[i]]

Refs(vs) == {vs[k].ref : k \in DOMAIN vs}

\* the identity of a newly allocated array
Fresh(vs) == CHOOSE r \in 1..(Len(vs) + 1) : r \notin Refs(vs)

\* MySP(v=arr) for a new array arr (lines 99-100), kept while the heap has room
Keep(vs, arr) ==
    IF Len(vs) < MaxVecs THEN Append(vs, [v |-> arr, ref |-> Fresh(vs)]) ELSE vs

\* an in-place write of arr into the array of object i: every object that
\* refers to that array sees it
Write(vs, i, arr) ==
    [k \in DOMAIN vs |-> IF vs[k].ref = vs[i].ref THEN [vs[k] EXCEPT !.v = arr]
                         ELSE vs[k]]

\* self.v = arr for a new array arr: only object i refers to it
Rebind(vs, i, arr) ==
    LET others == [k \in DOMAIN vs |-> IF k = i THEN [v |-> arr, ref |-> 0] ELSE vs[k]]
    IN  [others EXCEPT ![i].ref =
            CHOOSE r \in 1..Len(vs) : r \notin {vs[k].ref : k \in DOMAIN vs \ {i}}]

Called(op, i, j, raised) == [op |-> op, self |-> i, y |-> j, raised |-> raised]

InitHeap == vecs = <<>> /\ last = Called("none", 0, 0, FALSE)

OthersIdle == UNCHANGED <<decoderVars, sspVars, hrrVars>>

\* MySP(v=arr) with an array of the caller's, lines 99-100
NewVector ==
    /\ Len(vecs) < MaxVecs
    /\ \E arr \in Arrays : vecs' = Keep(vecs, arr)
    /\ last' = Called("init", 0, 0, FALSE)
    /\ OthersIdle

\* MySP(v=other.v): line 100 stores the argument, the array of another vector
NewShared ==
    /\ Len(vecs) < MaxVecs
    /\ \E j \in DOMAIN vecs :
          /\ vecs' = Append(vecs, [v |-> vecs[j].v, ref |-> vecs[j].ref])
          /\ last' = Called("init", 0, j, FALSE)
    /\ OthersIdle

\* make_zero, line 104: self.v[:] = 0.
MakeZero ==
    /\ \E i \in DOMAIN vecs :
          /\ vecs' = Write(vecs, i, [k \in DOMAIN vecs[i].v |-> 0])
          /\ last' = Called("make_zero", i, 0, FALSE)
    /\ OthersIdle

\* unitary, lines 110-111.  The values are those of
\* real(ifft(exp(1.j*angle(fft(self.v))))), which integers cannot hold: the
\* new array has the length of self.v and any entries.
Unitary ==
    /\ \E i \in DOMAIN vecs :
       \E arr \in Arr(Len0(vecs[i].v), HeapVals) :
          /\ vecs' = Keep(vecs, arr)
          /\ last' = Called("unitary", i, 0, FALSE)
    /\ OthersIdle

\* __mul__, line 115
Scale ==
    /\ \E i \in DOMAIN vecs :
       \E s \in ScaleVals :
          /\ InDomain([k \in DOMAIN vecs[i].v |-> vecs[i].v[k] * s])
          /\ vecs' = Keep(vecs, [k \in DOMAIN vecs[i].v |-> vecs[i].v[k] * s])
          /\ last' = Called("scale", i, 0, FALSE)
    /\ OthersIdle

\* bind, lines 118-119: fft(self.v)*fft(y.v) raises ValueError when the
\* lengths do not broadcast
Bind ==
    /\ \E i \in DOMAIN vecs :
       \E j \in DOMAIN vecs :
          IF Broadcasts(Len0(vecs[i].v), Len0(vecs[j].v))
          THEN /\ InDomain(BindValues(vecs[i].v, vecs[j].v))
               /\ vecs' = Keep(vecs, BindValues(vecs[i].v, vecs[j].v))
               /\ last' = Called("bind", i, j, FALSE)
          ELSE /\ vecs' = vecs
               /\ last' = Called("bind", i, j, TRUE)
    /\ OthersIdle

\* _bind, line 122: self.v becomes the new array
BindInPlace ==
    /\ \E i \in DOMAIN vecs :
       \E j \in DOMAIN vecs :
          IF Broadcasts(Len0(vecs[i].v), Len0(vecs[j].v))
          THEN /\ InDomain(BindValues(vecs[i].v, vecs[j].v))
               /\ vecs' = Rebind(vecs, i, BindValues(vecs[i].v, vecs[j].v))
               /\ last' = Called("_bind", i, j, FALSE)
          ELSE /\ vecs' = vecs
               /\ last' = Called("_bind", i, j, TRUE)
    /\ OthersIdle

\* unbind, lines 125-126.  The quotient of the transforms is not an integer
\* vector in general (and is inf or nan where fft(y.v) is 0, without an
\* exception): the new array has the broadcast length and any entries.
Unbind ==
    /\ \E i \in DOMAIN vecs :
       \E j \in DOMAIN vecs :
          IF Broadcasts(Len0(vecs[i].v), Len0(vecs[j].v))
          THEN /\ \E arr \in Arr(Max(Len0(vecs[i].v), Len0(vecs[j].v)), HeapVals) :
                     vecs' = Keep(vecs, arr)
               /\ last' = Called("unbind", i, j, FALSE)
          ELSE /\ vecs' = vecs
               /\ last' = Called("unbind", i, j, TRUE)
    /\ OthersIdle

\* bundle, lines 129-130
Bundle ==
    /\ \E i \in DOMAIN vecs :
       \E j \in DOMAIN vecs :
          IF Broadcasts(Len0(vecs[i].v), Len0(vecs[j].v))
          THEN /\ InDomain(BundleValues(vecs[i].v, vecs[j].v))
               /\ vecs' = Keep(vecs, BundleValues(vecs[i].v, vecs[j].v))
               /\ last' = Called("bundle", i, j, FALSE)
          ELSE /\ vecs' = vecs
               /\ last' = Called("bundle", i, j, TRUE)
    /\ OthersIdle

\* _bundle, line 133: self.v += y.v writes into self.v, so y.v must broadcast
\* to the length of self.v
BundleInPlace ==
    /\ \E i \in DOMAIN vecs :
       \E j \in DOMAIN vecs :
          IF Len0(vecs[j].v) = Len0(vecs[i].v) \/ Len0(vecs[j].v) = 1
          THEN /\ InDomain(BundleValues(vecs[i].v, vecs[j].v))
               /\ vecs' = Write(vecs, i, BundleValues(vecs[i].v, vecs[j].v))
               /\ last' = Called("_bundle", i, j, FALSE)
          ELSE /\ vecs' = vecs
               /\ last' = Called("_bundle", i, j, TRUE)
    /\ OthersIdle

\* power, lines 136-137.  fft(self.v)**p is not an integer vector in general:
\* the new array has the length of self.v and any entries.
Power ==
    /\ \E i \in DOMAIN vecs :
       \E arr \in Arr(Len0(vecs[i].v), HeapVals) :
          /\ vecs' = Keep(vecs, arr)
          /\ last' = Called("power", i, 0, FALSE)
    /\ OthersIdle

\* similarity, lines 140-141: np.dot raises ValueError unless the lengths
\* are equal
SimilarityCall ==
    /\ \E i \in DOMAIN vecs :
       \E j \in DOMAIN vecs :
          /\ vecs' = vecs
          /\ last' = Called("similarity", i, j, Len0(vecs[i].v) # Len0(vecs[j].v))
    /\ OthersIdle

InitA == InitHeap /\ IdlePc /\ IdleDecoderData /\ IdleSSP /\ IdleHRR

NextA ==
    \/ NewVector \/ NewShared \/ MakeZero \/ Unitary \/ Scale \/ Bind
    \/ BindInPlace \/ Unbind \/ Bundle \/ BundleInPlace \/ Power
    \/ SimilarityCall

SpecAlgebra == InitA /\ [][NextA]_vars

----------------------------------------------------------------------------
(* Claims about the decoder *)

Terminal == pc \in {"CONVERGED", "EXHAUSTED"}

\* the sum of f[i] over the indices i in S
RECURSIVE SumOver(_, _)
SumOver(S, f) ==
    IF S = {} THEN <<0, 1>>
    ELSE LET i == CHOOSE j \in S : TRUE
         IN  RAdd(f[i], SumOver(S \ {i}, f))

\* the couplings iteration t keeps with estimate xx: |r[i]| <= 1/t
Kept(xx, t) ==
    {i \in DOMAIN DeltaPhi :
        LET r == RSub(DeltaPhi[i], RMul(DeltaA[i], xx))
        IN  Abs(r[1]) * t <= r[2]}

\* C1: an iteration t with estimate x takes r[i] = DeltaPhi[i] - DeltaA[i]*x,
\* zeroes exactly the residuals with |r[i]| > 1/t (one with |r[i]| = 1/t is
\* kept) and adds kappa * (sum over the kept i of DeltaA[i]*r[i]) to x;
\* DeltaPhi and DeltaA are left as they are.
C1_IterationRule ==
    [][(pc = "ESTIMATING" /\ iter' # iter) =>
         LET t == iter'
             r == [i \in DOMAIN DeltaPhi |->
                      RSub(DeltaPhi[i], RMul(DeltaA[i], x))]
             kept == Kept(x, t)
             step == RMul(kappa,
                          SumOver(kept, [i \in DOMAIN DeltaPhi |->
                                            RMul(DeltaA[i], r[i])]))
         IN  /\ t = iter + 1
             /\ \A i \in DOMAIN DeltaPhi :
                   /\ outliers'[i] = (i \notin kept)
                   /\ resid'[i] = IF i \in kept THEN r[i] ELSE <<0, 1>>
             /\ x_increment' = step
             /\ x' = RAdd(x, step)
             /\ DeltaPhi' = DeltaPhi
             /\ DeltaA' = DeltaA]_vars

\* C1 witness: after iteration 2, a coupling that iteration 1 rejected
\* (|DeltaPhi[i] - DeltaA[i]*0| > 1) has been kept by iteration 2
C1_Witness ==
    /\ iter = 2
    /\ \E i \in DOMAIN DeltaPhi :
          /\ RGt(RAbs(DeltaPhi[i]), R(1))
          /\ ~outliers[i]
          /\ resid[i] = RSub(DeltaPhi[i], RMul(DeltaA[i], RSub(x, x_increment)))

\* |x_increment| < epsilon for the increment of the last executed iteration
LastIncrementSmall ==
    /\ iter >= 1
    /\ Abs(x_increment[1]) * epsilon[2] < epsilon[1] * x_increment[2]

\* C2: a run starts in ESTIMATING with x = 0 and reaches CONVERGED or
\* EXHAUSTED; it is CONVERGED exactly when the last executed iteration had
\* |increment| < epsilon and EXHAUSTED otherwise; the terminal state returns
\* the current x, and neither x nor the terminal state changes afterwards.
C2_Terminates ==
    /\ [](pc = "start" => <>Terminal)
    /\ [][pc = "start" => (pc' = "ESTIMATING" /\ x' = <<0, 1>>)]_vars
    /\ [](pc = "CONVERGED" => LastIncrementSmall)
    /\ [](pc = "EXHAUSTED" => ~LastIncrementSmall)
    /\ [](Terminal => estimate = x)
    /\ [][Terminal => (x' = x /\ pc' = pc /\ estimate' = estimate)]_vars

\* C2 witness: a run that converged after more than one iteration
C2_Witness ==
    /\ pc = "CONVERGED"
    /\ iter >= 2
    /\ estimate = x
    /\ x # <<0, 1>>

\* C3 as claimed: a run in which no increment is below epsilon has run the
\* iterations t = 1..max_iters when it stops
C3_RunsMaxIters == pc = "EXHAUSTED" => iter = max_iters

\* every measured phase difference is beyond 1: |DeltaPhi[i]| > 1
AllBeyondOne == \A i \in DOMAIN DeltaPhi : Abs(DeltaPhi[i][1]) > DeltaPhi[i][2]

\* C11: an iteration t that rejects every coupling (|r[i]| > 1/t for all i,
\* or no couplings at all) has increment exactly 0, leaves x as it was and
\* ends the run in that iteration as converged, returning that x; so a run
\* with every |DeltaPhi[i]| > 1 ends in iteration 1 with x = 0.  (The loop
\* has an iteration 1 when max_iters > 1; line 534 sets max_iters = 100.)
C11_AllRejectedStops ==
    /\ [][(pc = "ESTIMATING" /\ iter' # iter /\ Kept(x, iter') = {}) =>
            /\ \A i \in DOMAIN DeltaPhi : outliers'[i]
            /\ x_increment' = <<0, 1>>
            /\ x' = x
            /\ pc' = "CONVERGED"
            /\ estimate' = x]_vars
    /\ [][(pc = "ESTIMATING" /\ iter = 0 /\ max_iters > 1 /\ AllBeyondOne) =>
            /\ iter' = 1
            /\ pc' = "CONVERGED"
            /\ x' = <<0, 1>>
            /\ estimate' = <<0, 1>>]_vars

\* C11 witness: a run that stopped as converged in iteration 2 because both
\* of its couplings were rejected there, with x away from 0 and a residual
\* DeltaPhi[i] - DeltaA[i]*x beyond 1/2 at every coupling
C11_Witness ==
    /\ pc = "CONVERGED"
    /\ iter = 2
    /\ Len0(DeltaPhi) = 2
    /\ \A i \in DOMAIN DeltaPhi : outliers[i]
    /\ Kept(x, 2) = {}
    /\ x_increment = <<0, 1>>
    /\ x # <<0, 1>>
    /\ estimate = x

----------------------------------------------------------------------------
(* Claims about the coupling builder and the random construction *)

\* C6: with sidx a permutation that sorts the phases ascending, the couplings
\* are the D-1 pairs (sidx[i], sidx[i+1]), i = 0..D-2, followed by the D-2 pairs
\* (sidx[i], sidx[i+2]), i = 0..D-3, 2D-3 in all, and DeltaA has one entry per
\* coupling (j,k), equal to phase[j] - phase[k].
C6_Couplings ==
    pc = "cell16" =>
        /\ DOMAIN sidx = 0..(D - 1)
        /\ {sidx[i] : i \in DOMAIN sidx} = 0..(D - 1)
        /\ \A i \in 0..(D - 2) : a[sidx[i]] <= a[sidx[i + 1]]
        /\ DOMAIN couplings = 0..(2 * D - 4)
        /\ \A i \in 0..(D - 2) : couplings[i] = <<sidx[i], sidx[i + 1]>>
        /\ \A i \in 0..(D - 3) : couplings[D - 1 + i] = <<sidx[i], sidx[i + 2]>>
        /\ DOMAIN DeltaA = DOMAIN couplings
        /\ \A i \in DOMAIN couplings :
              DeltaA[i] = <<a[couplings[i][1]] - a[couplings[i][2]], 1>>

\* C6 witness: the cells have run on a spectrum with distinct phases among
\* its entries, so that some DeltaA is not 0
C6_Witness ==
    /\ pc = "cell16"
    /\ D >= 4
    /\ \E i \in DOMAIN DeltaA : DeltaA[i][1] < 0
    /\ couplings[D - 1] = <<sidx[0], sidx[2]>>

ConjugateSymmetric(phase, dim) ==
    /\ DOMAIN phase = 0..(dim - 1)
    /\ phase[0] = 0
    /\ \A k \in 1..dim : 2 * k < dim => phase[dim - k] = -phase[k]
    /\ dim % 2 = 0 => phase[dim \div 2] = 0

\* C7 as claimed: for every positive dimension D the random construction
\* succeeds and the stored phases are conjugate-symmetric
C7_ConstructionSucceeds ==
    pc # "construct" => (sp = "ok" /\ ConjugateSymmetric(a, D))

----------------------------------------------------------------------------
(* Claims about the vocabulary *)

\* the similarity of query q to every member
Sims(q) == [k \in DOMAIN vocab |-> Similarity(q, vocab[k])]

\* the smallest index whose similarity to q is the maximum over all members
FirstMax(q) ==
    CHOOSE k \in DOMAIN vocab :
        /\ \A j \in DOMAIN vocab : Sims(q)[j] <= Sims(q)[k]
        /\ \A j \in DOMAIN vocab : j < k => Sims(q)[j] < Sims(q)[k]

\* C5 as claimed: on a vocabulary of N >= 1 members cleanup(query) returns
\* (vocab[k], k, similarity(query, vocab[k])) for the smallest index k whose
\* similarity to the query is the maximum over all members, and changes
\* neither the vocabulary nor the query.
C5_CleanupFirstMax ==
    (ret.call = "cleanup" /\ Len0(vocab) >= 1) =>
        /\ ret.kind = "ok"
        /\ ret.k = FirstMax(ret.arg)
        /\ ret.v = vocab[FirstMax(ret.arg)]
        /\ ret.sim = Sims(ret.arg)[FirstMax(ret.arg)]

\* C9 as claimed: the accessor returns member number index for every index in
\* 0..N-1 and raises an error for every other index, negative ones included.
C9_GetBoundsChecked ==
    ret.call = "call" =>
        IF ret.arg \in 0..(Len0(vocab) - 1)
        THEN ret.kind = "ok" /\ ret.v = vocab[ret.arg]
        ELSE ret.kind = "IndexError"

----------------------------------------------------------------------------
(* Claims about the algebra *)

BinaryOps == {"bind", "unbind", "bundle", "similarity", "_bind", "_bundle"}
PureOps == {"unitary", "scale", "bind", "unbind", "bundle", "power"}
InPlaceOps == {"make_zero", "_bind", "_bundle"}

\* the step is a call of a method on vector last'.self
IsCall == last'.op \notin {"none", "init"}

\* C8 as claimed: a binary operation on two vectors whose numbers of values
\* differ raises an error at that call and leaves the values of both
\* operands as they were.
C8_MismatchRaises ==
    [][(/\ last'.op \in BinaryOps
        /\ Len0(vecs[last'.self].v) # Len0(vecs[last'.y].v))
       => (/\ last'.raised
           /\ vecs'[last'.self].v = vecs[last'.self].v
           /\ vecs'[last'.y].v = vecs[last'.y].v)]_vars

\* C10 as claimed: a call of unitary, scale, bind, unbind, bundle or power
\* returns a new vector and leaves the values of every existing vector as
\* they were; make_zero, _bind and _bundle change the receiver only.
C10_FrameEffect ==
    [][IsCall =>
        /\ last'.op \in PureOps =>
              /\ \A k \in DOMAIN vecs : vecs'[k] = vecs[k]
              /\ Len(vecs') > Len(vecs) =>
                    vecs'[Len(vecs')].ref \notin Refs(vecs)
        /\ last'.op \in InPlaceOps =>
              \A k \in DOMAIN vecs \ {last'.self} : vecs'[k].v = vecs[k].v
        /\ last'.op \notin InPlaceOps =>
              \A k \in DOMAIN vecs : vecs'[k].v = vecs[k].v]_vars

====
